---- MODULE Spec2Model ----
(***************************************************************************)
(* Model of heic_utils.py: the size-targeted JPEG quality search           *)
(* (_encode_with_target_size) and the batch orchestrator                   *)
(* (convert_heic_batch) with backup, conversion, optional source removal   *)
(* and progress reporting.                                                 *)
(***************************************************************************)
EXTENDS Integers, Sequences, FiniteSets, TLC

(***************************************************************************)
(* Program constants (heic_utils.py:14-17).                                *)
(***************************************************************************)
TARGET_MIN_BYTES == 1000000
TARGET_MAX_BYTES == 2000000
QUALITY_MIN == 40
QUALITY_MAX == 95

Qualities == QUALITY_MIN..QUALITY_MAX

(***************************************************************************)
(* The encoder.  _encode_jpeg(image, quality) is deterministic in (image,  *)
(* quality); an image is represented by its size function f, mapping each  *)
(* quality to the byte length of its encoding.  The bytes of an encoding   *)
(* are represented by the quality they were encoded at and their length.   *)
(***************************************************************************)
_encode_jpeg(f, quality) == [q |-> quality, size |-> f[quality]]

\* len(data)
len(data) == data.size

NoBest == [size |-> -1, quality |-> -1, data |-> [q |-> -1, size |-> -1]]

\* Mutant of ExceedsMax: the comparison accepts one byte too many.
ExceedsMaxLax(size) == size > TARGET_MAX_BYTES + 1

\* Mutant of ExceedsMax: the comparison rejects a size equal to the maximum.
ExceedsMaxStrict(size) == size >= TARGET_MAX_BYTES

\* line 132: if size > TARGET_MAX_BYTES
ExceedsMax(size) == size > TARGET_MAX_BYTES

\* Mutant of CandidateExceedsMax: the comparison accepts one byte too many.
CandidateExceedsMaxLax(size) == size > TARGET_MAX_BYTES + 1

\* line 148: if candidate_size > TARGET_MAX_BYTES
CandidateExceedsMax(size) == size > TARGET_MAX_BYTES

\* Mutant of NeedsRefinement: refinement is never entered.
NeedsRefinementNever(size, quality) == FALSE

\* line 144: if size < TARGET_MIN_BYTES and quality < QUALITY_MAX
NeedsRefinement(size, quality) == size < TARGET_MIN_BYTES /\ quality < QUALITY_MAX

\* Mutant of Mid: the lowest quality of the interval is probed.
MidLowest(low, high) == low

\* line 129: quality = (low + high) // 2
Mid(low, high) == (low + high) \div 2

(***************************************************************************)
(* Lines 128-136: the binary search loop.  Returns the final best          *)
(* candidate (NoBest when none fitted) and the number of encode calls.     *)
(***************************************************************************)
RECURSIVE BinarySearch(_, _, _, _, _)
BinarySearch(f, low, high, best, calls) ==
    IF low <= high
    THEN LET quality == Mid(low, high)
             data == _encode_jpeg(f, quality)
             size == len(data)
         IN  IF ExceedsMax(size)
             THEN BinarySearch(f, low, quality - 1, best, calls + 1)
             ELSE BinarySearch(f, quality + 1, high,
                               [size |-> size, quality |-> quality, data |-> data],
                               calls + 1)
    ELSE [best |-> best, calls |-> calls]

(***************************************************************************)
(* Lines 145-151: the refinement loop "for quality in range(q, 96)".       *)
(* q is the next value of the loop variable; data/quality are the current  *)
(* values of the Python variables of the same name.  On break the loop     *)
(* variable keeps the value of the rejected candidate.                     *)
(***************************************************************************)
\* Mutant of Refine: on break the loop variable is one past the rejected
\* candidate.
RECURSIVE RefinePastCandidate(_, _, _, _, _)
RefinePastCandidate(f, q, data, quality, calls) ==
    IF q <= QUALITY_MAX
    THEN LET candidate == _encode_jpeg(f, q)
             candidate_size == len(candidate)
         IN  IF CandidateExceedsMax(candidate_size)
             THEN [data |-> data, quality |-> q + 1, calls |-> calls + 1]
             ELSE RefinePastCandidate(f, q + 1, candidate, q, calls + 1)
    ELSE [data |-> data, quality |-> quality, calls |-> calls]

RECURSIVE Refine(_, _, _, _, _)
Refine(f, q, data, quality, calls) ==
    IF q <= QUALITY_MAX
    THEN LET candidate == _encode_jpeg(f, q)
             candidate_size == len(candidate)
         IN  IF CandidateExceedsMax(candidate_size)
             THEN [data |-> data, quality |-> q, calls |-> calls + 1]
             ELSE Refine(f, q + 1, candidate, q, calls + 1)
    ELSE [data |-> data, quality |-> quality, calls |-> calls]

(***************************************************************************)
(* Lines 123-152: _encode_with_target_size.  Returns (data, quality) and   *)
(* the number of _encode_jpeg calls made; bsCalls counts those of the      *)
(* binary search, refined tells whether the refinement loop was entered.   *)
(***************************************************************************)
_encode_with_target_size(f) ==
    LET bs == BinarySearch(f, QUALITY_MIN, QUALITY_MAX, NoBest, 0)
        best == bs.best
    IN  IF best = NoBest
        THEN [data |-> _encode_jpeg(f, QUALITY_MIN), quality |-> QUALITY_MIN,
              calls |-> bs.calls + 1, bsCalls |-> bs.calls,
              fallback |-> TRUE, refined |-> FALSE]
        ELSE IF NeedsRefinement(best.size, best.quality)
             THEN LET r == Refine(f, best.quality + 1, best.data, best.quality, bs.calls)
                  IN  [data |-> r.data, quality |-> r.quality,
                       calls |-> r.calls, bsCalls |-> bs.calls,
                       fallback |-> FALSE, refined |-> TRUE]
             ELSE [data |-> best.data, quality |-> best.quality,
                   calls |-> bs.calls, bsCalls |-> bs.calls,
                   fallback |-> FALSE, refined |-> FALSE]

(***************************************************************************)
(* Lines 123-143 without lines 144-151: the search with the refinement     *)
(* loop removed returns the best candidate of the binary search, or the    *)
(* encoding at QUALITY_MIN when there is none.                             *)
(***************************************************************************)
SearchWithoutRefinement(f) ==
    LET bs == BinarySearch(f, QUALITY_MIN, QUALITY_MAX, NoBest, 0)
        best == bs.best
    IN  IF best = NoBest
        THEN [data |-> _encode_jpeg(f, QUALITY_MIN), quality |-> QUALITY_MIN]
        ELSE [data |-> best.data, quality |-> best.quality]

(***************************************************************************)
(* Images.  A size function is piecewise constant with two breakpoints;    *)
(* the segment values are the sizes at and next to the window's ends.      *)
(***************************************************************************)
SizeValues == {TARGET_MIN_BYTES - 1, TARGET_MIN_BYTES, TARGET_MAX_BYTES, TARGET_MAX_BYTES + 1}

Piecewise(b1, b2, v1, v2, v3) ==
    [q \in Qualities |-> IF q < b1 THEN v1 ELSE IF q < b2 THEN v2 ELSE v3]

Breakpoints == QUALITY_MIN..(QUALITY_MAX + 1)

(***************************************************************************)
(* Paths.  A path is a directory, a stem and a suffix.                     *)
(***************************************************************************)
Path(d, s, e) == [dir |-> d, stem |-> s, ext |-> e]

\* the source paths a caller may pass
Paths == {Path("d1", "a", ".heic"), Path("d2", "a", ".heic"), Path("d1", "b", ".heic")}

\* line 70: backup_dir = workdir_path / backup_folder_name
backup_dir == "work/kopia heic"

\* src.name
Name(p) == <<p.stem, p.ext>>

\* line 103: dst = backup_dir / src.name
BackupPath(p) == Path(backup_dir, p.stem, p.ext)

\* line 110: target = src.with_suffix(".jpg")
with_suffix_jpg(p) == Path(p.dir, p.stem, ".jpg")

\* str(path)
str(p) == <<p.dir, p.stem, p.ext>>

AllFiles == Paths \cup {BackupPath(p) : p \in Paths} \cup {with_suffix_jpg(p) : p \in Paths}

(***************************************************************************)
(* File contents: the original image of each source path, a corrupt file,  *)
(* a file left in the backup directory by an earlier program, the remains  *)
(* of an interrupted copy or write, and the JPEG bytes of an image.        *)
(***************************************************************************)
File(kind, img, q, size) == [kind |-> kind, img |-> img, q |-> q, size |-> size]

NoImg == <<"", "">>
NoFile == File("absent", NoImg, 0, 0)
Corrupt == File("corrupt", NoImg, 0, 0)
OldBackup == File("old backup", NoImg, 0, 0)
Partial == File("partial", NoImg, 0, 0)

Orig(p) == File("image", <<p.dir, p.stem>>, 0, 0)

Images == {Orig(p) : p \in Paths}

\* the size function of each image: one has qualities inside the window, one
\* jumps from below the window to above it, one is too large at every quality
ImageSize(c) ==
    IF c = Orig(Path("d1", "a", ".heic"))
    THEN Piecewise(50, 80, TARGET_MIN_BYTES - 1, TARGET_MIN_BYTES, TARGET_MAX_BYTES + 1)
    ELSE IF c = Orig(Path("d2", "a", ".heic"))
    THEN Piecewise(60, 60, TARGET_MIN_BYTES - 1, TARGET_MIN_BYTES - 1, TARGET_MAX_BYTES + 1)
    ELSE Piecewise(40, 40, TARGET_MAX_BYTES + 1, TARGET_MAX_BYTES + 1, TARGET_MAX_BYTES + 1)

\* the bytes written to the target: the encoding of image c
Jpeg(c, data) == File("jpeg", c.img, data.q, data.size)

CleanupPrefix == "Przekonwertowano, ale nie udalo sie usunac oryginalu: "

VARIABLES
    sizeOf,          \* quality search: the image handed to _encode_with_target_size
    sres,            \* quality search: the returned value, or NoResult
    fs,              \* the filesystem: content of every file, NoFile when absent
    dirExists,       \* whether backup_dir exists
    _HEIF_REGISTERED,\* line 20: process-wide flag
    pc,              \* control point of convert_heic_batch
    paths,           \* argument: heic_paths
    remove_source,   \* argument
    has_callback,    \* argument: progress_callback is not None
    converted,       \* line 73
    errors,          \* line 74
    done,            \* line 77
    i,               \* position of src in heic_paths (1-based)
    calls,           \* number of convert_heic_batch invocations so far
    exc,             \* the exception that left convert_heic_batch, NoException if none
    registrations,   \* history: number of register_heif_opener() calls in the process
    log              \* history: the per-file operations of the current invocation

vars == <<sizeOf, sres, fs, dirExists, _HEIF_REGISTERED, pc, paths, remove_source,
          has_callback, converted, errors, done, i, calls, exc, registrations,
          log>>

searchVars == <<sizeOf, sres>>
batchVars == <<fs, dirExists, _HEIF_REGISTERED, pc, paths, remove_source,
               has_callback, converted, errors, done, i, calls, exc, registrations,
               log>>

NoException == "none"
DependencyMissing == "RuntimeError: Brak zaleznosci pillow-heif"
MkdirError == "OSError: mkdir"

NoResult == [data |-> [q |-> -1, size |-> -1], quality |-> -1, calls |-> 0,
             bsCalls |-> 0, fallback |-> FALSE, refined |-> FALSE]

\* bounds of the model: the longest input list of a single invocation, the
\* number of invocations in one process and their longest input list
MaxFiles == 2
MaxCalls == 2
MaxProcessFiles == 1

(***************************************************************************)
(* Records built by the orchestrator.  The field idx is history: the       *)
(* position in heic_paths of the file the entry was recorded for.          *)
(***************************************************************************)
\* line 83: ConversionResult(str(src), str(target), quality, size)
ConversionResult(src, target, quality, size, k) ==
    [source |-> str(src), target |-> str(target), quality |-> quality,
     size_bytes |-> size, idx |-> k]

\* lines 88, 90: the tuple (str(src), message)
ErrorEntry(src, msg, k) == [source |-> str(src), msg |-> msg, idx |-> k]

\* line 90: str(exc)
PlainMessage(e) == <<e>>

\* Mutant of CleanupMessage: the deletion failure is reported like any other.
CleanupMessagePlain(e) == <<e>>

\* line 88: f"Przekonwertowano, ale nie udało się usunąć oryginału: {exc}"
CleanupMessage(e) == <<CleanupPrefix, e>>

Ev(op, k, content, args, raised) ==
    [op |-> op, i |-> k, content |-> content, args |-> args, raised |-> raised]

\* the files on disk when convert_heic_batch is entered: d1/a.heic is its
\* image, d2/a.heic is its image or missing, d1/b.heic is its image or a
\* corrupt file, no target exists, and the backup directory may hold a file
\* named a.heic left by an earlier run
InitialSources ==
    {t \in [Paths -> {NoFile, Corrupt} \cup Images] :
        /\ t[Path("d1", "a", ".heic")] = Orig(Path("d1", "a", ".heic"))
        /\ t[Path("d2", "a", ".heic")] \in {Orig(Path("d2", "a", ".heic")), NoFile}
        /\ t[Path("d1", "b", ".heic")] \in {Orig(Path("d1", "b", ".heic")), Corrupt}}

InitialFs ==
    {[x \in AllFiles |->
        IF x \in Paths THEN t[x]
        ELSE IF x = BackupPath(Path("d1", "a", ".heic")) THEN b
        ELSE NoFile] : t \in InitialSources, b \in {NoFile, OldBackup}}

\* the state in which a call of convert_heic_batch finds the process: the
\* codec may have been registered by an earlier call
BatchInit ==
    /\ fs \in InitialFs
    /\ dirExists \in BOOLEAN
    /\ (\E p \in Paths : fs[BackupPath(p)] # NoFile) => dirExists
    /\ _HEIF_REGISTERED \in BOOLEAN
    /\ pc = "idle"
    /\ paths = <<>>
    /\ remove_source = FALSE
    /\ has_callback = FALSE
    /\ converted = <<>>
    /\ errors = <<>>
    /\ done = 0
    /\ i = 0
    /\ calls = 0
    /\ exc = NoException
    /\ registrations = (IF _HEIF_REGISTERED THEN 1 ELSE 0)
    /\ log = <<>>

Init ==
    /\ sizeOf = ImageSize(Orig(Path("d1", "a", ".heic")))
    /\ sres = NoResult
    /\ BatchInit

PathLists == UNION {[1..n -> Paths] : n \in 0..MaxFiles}

(***************************************************************************)
(* Lines 51-65: entry of convert_heic_batch.                               *)
(***************************************************************************)
\* Mutant of Enter: the early return for an empty list is missing.
EnterNoEarlyReturn(lists) ==
    /\ \E ps \in lists, rs \in BOOLEAN, cb \in BOOLEAN :
        /\ paths' = ps
        /\ remove_source' = rs
        /\ has_callback' = cb
        /\ pc' = "register"
    /\ calls' = calls + 1
    /\ exc' = NoException
    /\ converted' = <<>>
    /\ errors' = <<>>
    /\ done' = 0
    /\ i' = 0
    /\ log' = <<>>
    /\ UNCHANGED <<fs, dirExists, _HEIF_REGISTERED, registrations, searchVars>>

Enter(lists) ==
    /\ \E ps \in lists, rs \in BOOLEAN, cb \in BOOLEAN :
        /\ paths' = ps
        /\ remove_source' = rs
        /\ has_callback' = cb
        /\ pc' = IF ps = <<>> THEN "returned" ELSE "register"
    /\ calls' = calls + 1
    /\ exc' = NoException
    /\ converted' = <<>>
    /\ errors' = <<>>
    /\ done' = 0
    /\ i' = 0
    /\ log' = <<>>
    /\ UNCHANGED <<fs, dirExists, _HEIF_REGISTERED, registrations, searchVars>>

Call ==
    /\ pc = "idle"
    /\ Enter(PathLists)

(***************************************************************************)
(* Lines 67, 167-179: _ensure_heif_registered.                             *)
(***************************************************************************)
RegisterSkip ==
    /\ pc = "register"
    /\ _HEIF_REGISTERED
    /\ pc' = "mkdir"
    /\ UNCHANGED <<fs, dirExists, _HEIF_REGISTERED, paths, remove_source,
                   has_callback, converted, errors, done, i, calls,
                   registrations, exc, log, searchVars>>

\* Mutant of RegisterOk: the flag is not set after the registration.
RegisterOkFlagNotSet ==
    /\ pc = "register"
    /\ ~_HEIF_REGISTERED
    /\ registrations' = registrations + 1
    /\ pc' = "mkdir"
    /\ UNCHANGED <<fs, dirExists, _HEIF_REGISTERED, paths, remove_source,
                   has_callback, converted, errors, done, i, calls, exc, log,
                   searchVars>>

\* lines 171-179: the import succeeds, register_heif_opener() is called and
\* the flag is set
RegisterOk ==
    /\ pc = "register"
    /\ ~_HEIF_REGISTERED
    /\ _HEIF_REGISTERED' = TRUE
    /\ registrations' = registrations + 1
    /\ pc' = "mkdir"
    /\ UNCHANGED <<fs, dirExists, paths, remove_source, has_callback,
                   converted, errors, done, i, calls, exc, log, searchVars>>

\* Mutant of RegisterFail: the backup directory is created before the
\* registration is attempted.
RegisterFailAfterMkdir ==
    /\ pc = "register"
    /\ ~_HEIF_REGISTERED
    /\ dirExists' = TRUE
    /\ pc' = "raised"
    /\ exc' = DependencyMissing
    /\ UNCHANGED <<fs, _HEIF_REGISTERED, paths, remove_source,
                   has_callback, converted, errors, done, i, calls,
                   registrations, log, searchVars>>

\* the import of pillow_heif fails: RuntimeError leaves convert_heic_batch
RegisterFail ==
    /\ pc = "register"
    /\ ~_HEIF_REGISTERED
    /\ pc' = "raised"
    /\ exc' = DependencyMissing
    /\ UNCHANGED <<fs, dirExists, _HEIF_REGISTERED, paths, remove_source,
                   has_callback, converted, errors, done, i, calls,
                   registrations, log, searchVars>>

_ensure_heif_registered == RegisterSkip \/ RegisterOk \/ RegisterFail

(***************************************************************************)
(* Lines 69-77: backup_dir.mkdir(parents=True, exist_ok=True) and the      *)
(* initialisation of the loop.                                             *)
(***************************************************************************)
MkdirOk ==
    /\ pc = "mkdir"
    /\ dirExists' = TRUE
    /\ log' = <<>>
    /\ converted' = <<>>
    /\ errors' = <<>>
    /\ done' = 0
    /\ i' = 1
    /\ pc' = "backup"
    /\ UNCHANGED <<fs, _HEIF_REGISTERED, paths, remove_source, has_callback,
                   calls, registrations, exc, searchVars>>

\* the directory cannot be created: OSError leaves convert_heic_batch
MkdirFail ==
    /\ pc = "mkdir"
    /\ ~dirExists
    /\ pc' = "raised"
    /\ exc' = MkdirError
    /\ UNCHANGED <<fs, dirExists, _HEIF_REGISTERED, paths, remove_source,
                   has_callback, converted, errors, done, i, calls,
                   registrations, log, searchVars>>

(***************************************************************************)
(* Lines 79-81, 102-106: _copy_to_backup(src, backup_dir); lines 89-90     *)
(* when it raises.                                                         *)
(***************************************************************************)
src == paths[i]

\* Mutant of RecordError: the failure is swallowed without an entry.
RecordErrorDropped(msg) == errors' = errors

\* Mutant of RecordError: the entry is recorded twice.
RecordErrorTwice(msg) ==
    errors' = errors \o <<ErrorEntry(src, msg, i), ErrorEntry(src, msg, i)>>

\* Mutant of RecordError: the entry is put at the head of the list.
RecordErrorFront(msg) == errors' = <<ErrorEntry(src, msg, i)>> \o errors

\* lines 89-90: except Exception as exc: errors.append((str(src), str(exc)))
RecordError(msg) == errors' = Append(errors, ErrorEntry(src, msg, i))

\* Mutant of BackupSkip: the copy is made although dst exists.
BackupSkipOverwrites ==
    /\ pc = "backup"
    /\ fs[BackupPath(src)] # NoFile
    /\ fs' = [fs EXCEPT ![BackupPath(src)] =
                  IF fs[src] # NoFile THEN fs[src] ELSE fs[BackupPath(src)]]
    /\ log' = Append(log, Ev("backup_skip", i, fs'[BackupPath(src)], <<>>, FALSE))
    /\ pc' = "convert"
    /\ UNCHANGED <<dirExists, _HEIF_REGISTERED, paths, remove_source,
                   has_callback, converted, errors, done, i, calls,
                   registrations, exc, searchVars>>

\* lines 104-105: dst exists, the copy is skipped
BackupSkip ==
    /\ pc = "backup"
    /\ fs[BackupPath(src)] # NoFile
    /\ log' = Append(log, Ev("backup_skip", i, fs[BackupPath(src)], <<>>, FALSE))
    /\ pc' = "convert"
    /\ UNCHANGED <<fs, dirExists, _HEIF_REGISTERED, paths, remove_source,
                   has_callback, converted, errors, done, i, calls,
                   registrations, exc, searchVars>>

\* line 106: shutil.copy2 succeeds
BackupCopy ==
    /\ pc = "backup"
    /\ fs[BackupPath(src)] = NoFile
    /\ fs[src] # NoFile
    /\ fs' = [fs EXCEPT ![BackupPath(src)] = fs[src]]
    /\ log' = Append(log, Ev("copy", i, fs[src], <<>>, FALSE))
    /\ pc' = "convert"
    /\ UNCHANGED <<dirExists, _HEIF_REGISTERED, paths, remove_source,
                   has_callback, converted, errors, done, i, calls,
                   registrations, exc, searchVars>>

\* Mutant of BackupFail: the copy error leaves convert_heic_batch.
BackupFailPropagates ==
    /\ pc = "backup"
    /\ fs[BackupPath(src)] = NoFile
    /\ fs' = fs
    /\ log' = Append(log, Ev("copy_failed", i, fs'[BackupPath(src)], <<>>, FALSE))
    /\ pc' = "raised"
    /\ exc' = "OSError: copy"
    /\ UNCHANGED <<dirExists, _HEIF_REGISTERED, paths, remove_source,
                   has_callback, converted, errors, done, i, calls,
                   registrations, searchVars>>

\* Mutant of BackupFail: the copy error is recorded and the conversion of
\* the same file is attempted nevertheless.
BackupFailContinues ==
    /\ pc = "backup"
    /\ fs[BackupPath(src)] = NoFile
    /\ \/ /\ fs[src] = NoFile
          /\ fs' = fs
          /\ RecordError(PlainMessage("No such file or directory"))
       \/ /\ fs[src] # NoFile
          /\ fs' \in {fs, [fs EXCEPT ![BackupPath(src)] = Partial]}
          /\ RecordError(PlainMessage("copy failed"))
    /\ log' = Append(log, Ev("copy_failed", i, fs'[BackupPath(src)], <<>>, FALSE))
    /\ pc' = "convert"
    /\ UNCHANGED <<dirExists, _HEIF_REGISTERED, paths, remove_source,
                   has_callback, converted, done, i, calls, registrations,
                   exc, searchVars>>

\* line 106: shutil.copy2 raises (source missing, or an I/O error that leaves
\* no destination file or an incomplete one); lines 89-90 record the error
BackupFail ==
    /\ pc = "backup"
    /\ fs[BackupPath(src)] = NoFile
    /\ \/ /\ fs[src] = NoFile
          /\ fs' = fs
          /\ RecordError(PlainMessage("No such file or directory"))
       \/ /\ fs[src] # NoFile
          /\ fs' \in {fs, [fs EXCEPT ![BackupPath(src)] = Partial]}
          /\ RecordError(PlainMessage("copy failed"))
    /\ log' = Append(log, Ev("copy_failed", i, fs'[BackupPath(src)], <<>>, FALSE))
    /\ pc' = "progress"
    /\ UNCHANGED <<dirExists, _HEIF_REGISTERED, paths, remove_source,
                   has_callback, converted, done, i, calls, registrations,
                   exc, searchVars>>

_copy_to_backup == BackupSkip \/ BackupCopy \/ BackupFail

(***************************************************************************)
(* Lines 82-83, 109-115: _convert_single(src) and the append to converted; *)
(* lines 89-90 when it raises.                                             *)
(***************************************************************************)
\* line 111: Image.open succeeds on an image file only
Decodable(c) == c.kind = "image"

\* Mutant of AfterConvert: the source is removed whatever remove_source says.
AfterConvertAlwaysRemove == "remove"

\* line 84: if remove_source
AfterConvert == IF remove_source THEN "remove" ELSE "progress"

ConvertOk ==
    /\ pc = "convert"
    /\ Decodable(fs[src])
    /\ LET target == with_suffix_jpg(src)
           r == _encode_with_target_size(ImageSize(fs[src]))
       IN  /\ fs' = [fs EXCEPT ![target] = Jpeg(fs[src], r.data)]
           /\ converted' = Append(converted,
                  ConversionResult(src, target, r.quality, len(r.data), i))
           /\ log' = Append(log, Ev("write", i, Jpeg(fs[src], r.data), <<>>, FALSE))
    /\ pc' = AfterConvert
    /\ UNCHANGED <<dirExists, _HEIF_REGISTERED, paths, remove_source,
                   has_callback, errors, done, i, calls, registrations, exc, searchVars>>

ConvertFailed(stage, msg) ==
    /\ RecordError(PlainMessage(msg))
    /\ log' = Append(log, Ev("convert_failed", i, fs'[with_suffix_jpg(src)],
                             <<stage>>, FALSE))

\* Mutant of ConvertFail: the target is opened for writing before the image
\* is decoded and encoded, so a failure there leaves it truncated.
ConvertFailTruncates ==
    /\ pc = "convert"
    /\ \/ /\ ~Decodable(fs[src])
          /\ fs' = [fs EXCEPT ![with_suffix_jpg(src)] = Partial]
          /\ ConvertFailed("decode", "cannot identify image file")
       \/ /\ Decodable(fs[src])
          /\ fs' = [fs EXCEPT ![with_suffix_jpg(src)] = Partial]
          /\ ConvertFailed("encode", "encoder error")
    /\ pc' = "progress"
    /\ UNCHANGED <<dirExists, _HEIF_REGISTERED, paths, remove_source,
                   has_callback, converted, done, i, calls, registrations,
                   exc, searchVars>>

\* line 111 raises (missing or undecodable source), line 113 raises (the
\* encoder fails), or line 114 raises leaving the target untouched or
\* truncated; lines 89-90 record the error
ConvertFail ==
    /\ pc = "convert"
    /\ \/ /\ ~Decodable(fs[src])
          /\ fs' = fs
          /\ ConvertFailed("decode", "cannot identify image file")
       \/ /\ Decodable(fs[src])
          /\ fs' = fs
          /\ ConvertFailed("encode", "encoder error")
       \/ /\ Decodable(fs[src])
          /\ fs' \in {fs, [fs EXCEPT ![with_suffix_jpg(src)] = Partial]}
          /\ ConvertFailed("write", "write failed")
    /\ pc' = "progress"
    /\ UNCHANGED <<dirExists, _HEIF_REGISTERED, paths, remove_source,
                   has_callback, converted, done, i, calls, registrations,
                   exc, searchVars>>

_convert_single == ConvertOk \/ ConvertFail

(***************************************************************************)
(* Lines 84-88, 118-120: _remove_source_file(src).                         *)
(***************************************************************************)
\* lines 119-120: the source is unlinked if it exists; nothing is done
\* when it is already gone
RemoveOk ==
    /\ pc = "remove"
    /\ IF fs[src] # NoFile
       THEN /\ fs' = [fs EXCEPT ![src] = NoFile]
            /\ log' = Append(log, Ev("unlink", i, fs[src], <<>>, FALSE))
       ELSE /\ fs' = fs
            /\ log' = Append(log, Ev("unlink_skip", i, NoFile, <<>>, FALSE))
    /\ pc' = "progress"
    /\ UNCHANGED <<dirExists, _HEIF_REGISTERED, paths, remove_source,
                   has_callback, converted, errors, done, i, calls,
                   registrations, exc, searchVars>>

\* line 120 raises; lines 87-88 record the cleanup error
RemoveFail ==
    /\ pc = "remove"
    /\ fs[src] # NoFile
    /\ errors' = Append(errors, ErrorEntry(src, CleanupMessage("unlink failed"), i))
    /\ log' = Append(log, Ev("unlink_failed", i, fs[src], <<>>, FALSE))
    /\ pc' = "progress"
    /\ UNCHANGED <<fs, dirExists, _HEIF_REGISTERED, paths, remove_source,
                   has_callback, converted, done, i, calls, registrations,
                   exc, searchVars>>

_remove_source_file == RemoveOk \/ RemoveFail

(***************************************************************************)
(* Lines 91-97: the finally block, then the next iteration or line 99.     *)
(***************************************************************************)
total == Len(paths)

NextFile ==
    /\ i' = i + 1
    /\ pc' = IF i < total THEN "backup" ELSE "returned"

\* progress_callback is None
ProgressNone ==
    /\ pc = "progress"
    /\ ~has_callback
    /\ done' = done + 1
    /\ NextFile
    /\ UNCHANGED <<fs, dirExists, _HEIF_REGISTERED, paths, remove_source,
                   has_callback, converted, errors, calls, registrations,
                   exc, log, searchVars>>

\* Mutant of ProgressCall: what the sink raises leaves convert_heic_batch.
ProgressCallPropagates ==
    /\ pc = "progress"
    /\ has_callback
    /\ done' = done + 1
    /\ \E raised \in BOOLEAN :
          /\ log' = Append(log, Ev("callback", i, NoFile, <<done', total>>, raised))
          /\ IF raised
             THEN /\ pc' = "raised"
                  /\ exc' = "sink error"
                  /\ i' = i
             ELSE /\ NextFile
                  /\ exc' = exc
    /\ UNCHANGED <<fs, dirExists, _HEIF_REGISTERED, paths, remove_source,
                   has_callback, converted, errors, calls, registrations,
                   searchVars>>

\* Mutant of ProgressCall: the sink receives the count before the increment.
ProgressCallStale ==
    /\ pc = "progress"
    /\ has_callback
    /\ done' = done + 1
    /\ \E raised \in BOOLEAN :
          log' = Append(log, Ev("callback", i, NoFile, <<done, total>>, raised))
    /\ NextFile
    /\ UNCHANGED <<fs, dirExists, _HEIF_REGISTERED, paths, remove_source,
                   has_callback, converted, errors, calls, registrations,
                   exc, searchVars>>

\* progress_callback(done, total) is called; what it raises is discarded
ProgressCall ==
    /\ pc = "progress"
    /\ has_callback
    /\ done' = done + 1
    /\ \E raised \in BOOLEAN :
          log' = Append(log, Ev("callback", i, NoFile, <<done', total>>, raised))
    /\ NextFile
    /\ UNCHANGED <<fs, dirExists, _HEIF_REGISTERED, paths, remove_source,
                   has_callback, converted, errors, calls, registrations,
                   exc, searchVars>>

Progress == ProgressNone \/ ProgressCall

Next ==
    \/ Call
    \/ RegisterSkip \/ RegisterOk \/ RegisterFail
    \/ MkdirOk \/ MkdirFail
    \/ BackupSkip \/ BackupCopy \/ BackupFail
    \/ ConvertOk \/ ConvertFail
    \/ RemoveOk \/ RemoveFail
    \/ ProgressNone \/ ProgressCall

Spec == Init /\ [][Next]_vars

(***************************************************************************)
(* A process: convert_heic_batch is invoked again after it returned or     *)
(* raised.  The flag is False when the module is imported (line 20); the   *)
(* process starts with every source in place and no backup directory.      *)
(***************************************************************************)
ProcessInit ==
    /\ Init
    /\ _HEIF_REGISTERED = FALSE
    /\ ~dirExists
    /\ \A p \in Paths : fs[p] = Orig(p)

ProcessPathLists == UNION {[1..n -> Paths] : n \in 0..MaxProcessFiles}

ProcessCall ==
    /\ pc \in {"idle", "returned", "raised"}
    /\ calls < MaxCalls
    /\ Enter(ProcessPathLists)

ProcessNext ==
    \/ ProcessCall
    \/ RegisterSkip \/ RegisterOk \/ RegisterFail
    \/ MkdirOk \/ MkdirFail
    \/ BackupSkip \/ BackupCopy \/ BackupFail
    \/ ConvertOk \/ ConvertFail
    \/ RemoveOk \/ RemoveFail
    \/ ProgressNone \/ ProgressCall

ProcessSpec == ProcessInit /\ [][ProcessNext]_vars

(***************************************************************************)
(* The quality search on its own: every piecewise size function is handed  *)
(* to _encode_with_target_size once.                                       *)
(***************************************************************************)
SearchInit ==
    /\ \E b1 \in Breakpoints, b2 \in Breakpoints,
          v1 \in SizeValues, v2 \in SizeValues, v3 \in SizeValues :
              sizeOf = Piecewise(b1, b2, v1, v2, v3)
    /\ sres = NoResult
    /\ fs = [x \in AllFiles |-> NoFile]
    /\ dirExists = FALSE
    /\ _HEIF_REGISTERED = FALSE
    /\ pc = "idle"
    /\ paths = <<>>
    /\ remove_source = FALSE
    /\ has_callback = FALSE
    /\ converted = <<>>
    /\ errors = <<>>
    /\ done = 0
    /\ i = 0
    /\ calls = 0
    /\ exc = NoException
    /\ registrations = 0
    /\ log = <<>>

\* line 113: data, quality = _encode_with_target_size(rgb_image)
Search ==
    /\ sres = NoResult
    /\ sres' = _encode_with_target_size(sizeOf)
    /\ UNCHANGED <<sizeOf, batchVars>>

SearchNext == Search

SearchSpec == SearchInit /\ [][SearchNext]_vars

Returned == sres # NoResult

InWindow(size) == TARGET_MIN_BYTES <= size /\ size <= TARGET_MAX_BYTES

Monotone(f) == \A q \in QUALITY_MIN..(QUALITY_MAX - 1) : f[q] <= f[q + 1]

WindowQualities(f) == {q \in Qualities : InWindow(f[q])}

Highest(S) == CHOOSE q \in S : \A r \in S : r <= q

(***************************************************************************)
(* Properties of the batch orchestrator (specification Spec).              *)
(***************************************************************************)
ResultsFor(k) == {j \in DOMAIN converted : converted[j].idx = k}
ErrorsFor(k) == {j \in DOMAIN errors : errors[j].idx = k}
IsCleanup(e) == e.msg[1] = CleanupPrefix
HasEvent(op, k) == \E n \in DOMAIN log : log[n].op = op /\ log[n].i = k
IsCallback(e) == e.op = "callback"
BackupOps == {"backup_skip", "copy", "copy_failed"}
DeleteOps == {"unlink", "unlink_skip", "unlink_failed"}
FailureOps == {"copy_failed", "convert_failed", "unlink_failed"}

\* the position of an operation in the body of the loop: backup (line 81),
\* conversion (lines 82-83), removal (lines 84-88), progress (lines 91-97)
StepRank(op) ==
    IF op \in BackupOps THEN 1
    ELSE IF op \in {"write", "convert_failed"} THEN 2
    ELSE IF op \in DeleteOps THEN 3
    ELSE 4

\* C1 as stated: when convert_heic_batch returns, len(results) plus the
\* number of distinct source paths in errors equals the number of inputs.
C1_DistinctFailedPaths ==
    pc = "returned" =>
        Len(converted) + Cardinality({errors[j].source : j \in DOMAIN errors}) = Len(paths)

\* C1 amended: when convert_heic_batch returns, len(results) plus the number
\* of error entries that are not cleanup-failure entries equals the number of
\* inputs.
C1_Completeness ==
    pc = "returned" =>
        Len(converted) + Cardinality({j \in DOMAIN errors : ~IsCleanup(errors[j])})
            = Len(paths)

C1_Witness ==
    /\ pc = "returned"
    /\ Len(paths) = 2
    /\ \E j \in DOMAIN errors : IsCleanup(errors[j])
    /\ \E j \in DOMAIN errors : ~IsCleanup(errors[j])

\* C2: after a run with remove_source=True, every source the run deleted has
\* a file in the backup directory with the deleted source's content.
C2_DeletedHasBackup ==
    (pc = "returned" /\ remove_source) =>
        \A n \in DOMAIN log :
            log[n].op = "unlink" =>
                \E p \in Paths : fs[BackupPath(p)] = log[n].content

\* C3 as stated: the only failure that leaves convert_heic_batch is the
\* codec-registration failure.
C3_OnlyRegistrationPropagates == pc = "raised" => exc = DependencyMissing

\* C3 amended: the only failures that leave convert_heic_batch are the
\* codec-registration failure and the failure to create the backup
\* directory, both before any file is processed; every failure while a file
\* is processed has an entry in errors and does not leave the call.
C3_PerFileFailuresRecorded ==
    /\ pc = "raised" =>
          /\ exc \in {DependencyMissing, MkdirError}
          /\ \A n \in DOMAIN log : log[n].i = 0
          /\ errors = <<>> /\ converted = <<>>
    /\ \A n \in DOMAIN log :
          log[n].op \in FailureOps =>
              /\ ErrorsFor(log[n].i) # {}
              /\ pc # "raised"
    /\ \A n \in DOMAIN log : (log[n].op = "callback" /\ log[n].raised) => pc # "raised"

C3_Witness ==
    /\ pc = "returned"
    /\ \E n \in DOMAIN log : log[n].op = "copy_failed"
    /\ \E n \in DOMAIN log : log[n].op = "unlink_failed"
    /\ \E n \in DOMAIN log : log[n].op = "callback" /\ log[n].raised

\* C4: with a progress sink, a run that returns has invoked it exactly N
\* times, the k-th invocation carries (k, N), is made for the k-th file after
\* that file's disposition is recorded and after all its operations, and
\* before any operation on a later file.
C4_Progress ==
    LET cb == SelectSeq(log, IsCallback)
    IN  /\ (pc = "returned" /\ has_callback) => Len(cb) = Len(paths)
        /\ ~has_callback => Len(cb) = 0
        /\ \A k \in DOMAIN cb : cb[k].args = <<k, Len(paths)>> /\ cb[k].i = k
        /\ pc = "progress" => (ResultsFor(i) # {} \/ ErrorsFor(i) # {})
        /\ \A n \in DOMAIN log :
              log[n].op = "callback" =>
                  /\ ResultsFor(log[n].i) # {} \/ ErrorsFor(log[n].i) # {}
                  /\ \E m \in 1..(n - 1) : log[m].i = log[n].i /\ log[m].op \in BackupOps
                  /\ \A m \in DOMAIN log :
                        /\ (log[m].i <= log[n].i /\ m # n) => m < n
                        /\ log[m].i > log[n].i => m > n

C4_Witness ==
    /\ pc = "returned"
    /\ has_callback
    /\ Len(paths) = 2
    /\ Len(converted) = 1
    /\ \E j \in DOMAIN errors : ~IsCleanup(errors[j])
    /\ \E n \in DOMAIN log : log[n].op = "callback" /\ log[n].raised

\* C5: a file whose backup or conversion fails has exactly one error entry
\* with its path and the underlying message, no ConversionResult, no delete
\* step, and the run still visits every file of the list before it returns.
C5_FailureIsolated ==
    /\ \A n \in DOMAIN log :
          log[n].op \in {"copy_failed", "convert_failed"} =>
              LET k == log[n].i
              IN  /\ Cardinality(ErrorsFor(k)) = 1
                  /\ \A j \in ErrorsFor(k) :
                        /\ errors[j].source = str(paths[k])
                        /\ Len(errors[j].msg) = 1
                        /\ ~IsCleanup(errors[j])
                  /\ ResultsFor(k) = {}
                  /\ \A m \in DOMAIN log : log[m].i = k => log[m].op \notin DeleteOps
    /\ (pc = "returned" /\ paths # <<>>) =>
          /\ done = Len(paths)
          /\ \A k \in 1..Len(paths) : \E n \in DOMAIN log :
                log[n].i = k /\ log[n].op \in BackupOps

C5_Witness ==
    /\ pc = "returned"
    /\ remove_source
    /\ Len(paths) = 2
    /\ HasEvent("convert_failed", 1)
    /\ HasEvent("copy_failed", 2)

\* C6: when deleting the source fails after a successful conversion, the
\* outcome has a ConversionResult for the file and exactly one error entry
\* for the same path with the cleanup-failure message, and the written
\* target is still in place.
C6_CleanupFailure ==
    /\ \A n \in DOMAIN log :
          log[n].op = "unlink_failed" =>
              LET k == log[n].i
              IN  /\ remove_source
                  /\ Cardinality(ResultsFor(k)) = 1
                  /\ \A j \in ResultsFor(k) : converted[j].source = str(paths[k])
                  /\ Cardinality(ErrorsFor(k)) = 1
                  /\ \A j \in ErrorsFor(k) :
                        /\ errors[j].source = str(paths[k])
                        /\ IsCleanup(errors[j])
                        /\ errors[j].msg # PlainMessage(errors[j].msg[Len(errors[j].msg)])
    /\ (pc = "progress" /\ HasEvent("unlink_failed", i)) =>
          /\ converted[Len(converted)].idx = i
          /\ \E m \in DOMAIN log :
                /\ log[m].op = "write" /\ log[m].i = i
                /\ fs[with_suffix_jpg(src)] = log[m].content

C6_Witness ==
    /\ pc = "progress"
    /\ HasEvent("unlink_failed", i)
    /\ i = 2

\* C7: results and errors each keep the order of the input list, every input
\* entry has at most one ConversionResult and at most one error entry, and
\* both only when deletion failed after a successful conversion.
C7_Order ==
    /\ \A j \in DOMAIN converted, k \in DOMAIN converted :
          j < k => converted[j].idx < converted[k].idx
    /\ \A j \in DOMAIN errors, k \in DOMAIN errors :
          j < k => errors[j].idx < errors[k].idx
    /\ \A j \in DOMAIN converted :
          /\ converted[j].idx \in 1..Len(paths)
          /\ converted[j].source = str(paths[converted[j].idx])
    /\ \A j \in DOMAIN errors :
          /\ errors[j].idx \in 1..Len(paths)
          /\ errors[j].source = str(paths[errors[j].idx])
    /\ \A k \in 1..Len(paths) :
          (ResultsFor(k) # {} /\ ErrorsFor(k) # {}) =>
              /\ HasEvent("unlink_failed", k)
              /\ \A j \in ErrorsFor(k) : IsCleanup(errors[j])

C7_Witness ==
    /\ pc = "returned"
    /\ Len(paths) = 2
    /\ paths[1] = paths[2]
    /\ Len(converted) = 2
    /\ Len(errors) = 2

\* C11: a call with an empty input list returns two empty lists at once: it
\* touches no file, does not create the backup directory, does not attempt
\* the codec registration, does not call the progress sink and leaves the
\* codec-ready flag as it was.
C11_EmptyInput ==
    [][(calls' = calls + 1 /\ paths' = <<>>) =>
          /\ pc' = "returned"
          /\ exc' = NoException
          /\ converted' = <<>> /\ errors' = <<>>
          /\ log' = <<>> /\ done' = 0
          /\ fs' = fs
          /\ dirExists' = dirExists
          /\ _HEIF_REGISTERED' = _HEIF_REGISTERED
          /\ registrations' = registrations]_vars

C11_Witness ==
    /\ pc = "returned"
    /\ calls = 1
    /\ paths = <<>>
    /\ has_callback
    /\ ~_HEIF_REGISTERED
    /\ ~dirExists
    /\ log = <<>>

\* C12: whether the progress sink raises or not makes no difference: from
\* the same state both outcomes of an invocation lead to the same results,
\* errors, filesystem, counters and control point, and the same invocation
\* (done + 1, total) is made.
C12_SinkFailureIgnored ==
    [][(pc = "progress" /\ has_callback) =>
          /\ \E raised \in BOOLEAN :
                log' = Append(log, Ev("callback", i, NoFile,
                                      <<done + 1, Len(paths)>>, raised))
          /\ done' = done + 1
          /\ i' = i + 1
          /\ pc' = (IF i < Len(paths) THEN "backup" ELSE "returned")
          /\ exc' = NoException
          /\ UNCHANGED <<fs, dirExists, _HEIF_REGISTERED, paths, remove_source,
                         has_callback, converted, errors, calls,
                         registrations>>]_vars

C12_Witness ==
    /\ pc = "returned"
    /\ Len(paths) = 2
    /\ Len(converted) = 2
    /\ \E n \in DOMAIN log, m \in DOMAIN log :
          /\ n < m
          /\ log[n].op = "callback" /\ log[n].raised
          /\ log[m].op = "callback" /\ ~log[m].raised

\* C14: when the registration fails on a non-empty batch, the exception
\* leaves convert_heic_batch with no result, no error entry, no file
\* operation and no sink invocation, and neither the call step nor the
\* failing registration step touches the filesystem or creates the backup
\* directory.
C14_RegistrationFailsFirst ==
    /\ []((pc = "raised" /\ exc = DependencyMissing) =>
            /\ paths # <<>>
            /\ converted = <<>>
            /\ errors = <<>>
            /\ log = <<>>
            /\ done = 0)
    /\ [][(pc \in {"idle", "register"} /\ pc' \in {"register", "raised"}) =>
            /\ fs' = fs
            /\ dirExists' = dirExists
            /\ pc' = "raised" => exc' = DependencyMissing]_vars

C14_Witness ==
    /\ pc = "raised"
    /\ exc = DependencyMissing
    /\ Len(paths) = 2
    /\ has_callback
    /\ ~dirExists
    /\ \A p \in Paths : fs[BackupPath(p)] = NoFile /\ fs[with_suffix_jpg(p)] = NoFile

\* C15: no step changes a file that is present in the backup directory, and
\* a backup step for a name that an earlier backup step of the invocation
\* copied is a skip that finds the content written by that first copy.
C15_BackupFirstWriteWins ==
    /\ [][\A p \in Paths :
            fs[BackupPath(p)] # NoFile => fs'[BackupPath(p)] = fs[BackupPath(p)]]_vars
    /\ [](\A n, m \in DOMAIN log :
            (/\ n < m
             /\ log[n].op = "copy"
             /\ log[m].op \in BackupOps
             /\ Name(paths[log[n].i]) = Name(paths[log[m].i])) =>
                /\ log[m].op = "backup_skip"
                /\ log[m].content = log[n].content
                /\ fs[BackupPath(paths[log[n].i])] = log[n].content)

C15_Witness ==
    /\ Len(paths) = 2
    /\ paths[1] # paths[2]
    /\ \E n, m \in DOMAIN log :
        /\ n < m
        /\ log[n].op = "copy" /\ log[n].i = 1
        /\ log[m].op = "backup_skip" /\ log[m].i = 2
        /\ fs[paths[2]] \in Images
        /\ fs[paths[2]] # log[n].content
        /\ fs[BackupPath(paths[2])] = log[n].content

\* C16: the steps of a file occur in the order backup, convert, delete,
\* done, each at most once; the conversion of a file is attempted only
\* after its backup step returned without error; its source is deleted only
\* when remove_source is set, after its target was written and its result
\* recorded; and every step of a file is taken when exactly the files
\* before it are done.
C16_PerFileOrder ==
    /\ [](\A n, m \in DOMAIN log :
            n < m =>
                \/ log[n].i < log[m].i
                \/ /\ log[n].i = log[m].i
                   /\ StepRank(log[n].op) < StepRank(log[m].op))
    /\ [](\A n \in DOMAIN log :
            /\ StepRank(log[n].op) = 2 =>
                   \E m \in 1..(n - 1) :
                       /\ log[m].i = log[n].i
                       /\ log[m].op \in {"backup_skip", "copy"}
            /\ StepRank(log[n].op) = 3 =>
                   /\ remove_source
                   /\ ResultsFor(log[n].i) # {}
                   /\ \E m \in 1..(n - 1) :
                       /\ log[m].i = log[n].i
                       /\ log[m].op = "write")
    /\ [][Len(log') = Len(log) + 1 =>
            /\ log'[Len(log')].i = done + 1
            /\ StepRank(log'[Len(log')].op) = 3 => ResultsFor(i) # {}]_vars
    /\ [](pc \in {"backup", "convert", "remove", "progress"} => done = i - 1)
    /\ [](pc = "returned" => done = Len(paths))

C16_Witness ==
    /\ pc = "returned"
    /\ remove_source
    /\ has_callback
    /\ Len(paths) = 2
    /\ Len(log) = 8
    /\ \A k \in 1..2 :
        HasEvent("copy", k) /\ HasEvent("write", k) /\ HasEvent("unlink", k)

\* C20: a step of _convert_single that fails in decoding or encoding
\* leaves the target file, the source file and the backup file of that name
\* as they were (it changes no file), the backup file is present, and the
\* iteration goes on to the progress report without removing the source.
C20_FailedConversionFrame ==
    [][(/\ Len(log') = Len(log) + 1
        /\ log'[Len(log')].op = "convert_failed"
        /\ log'[Len(log')].args[1] \in {"decode", "encode"}) =>
            /\ fs'[with_suffix_jpg(src)] = fs[with_suffix_jpg(src)]
            /\ fs'[src] = fs[src]
            /\ fs'[BackupPath(src)] = fs[BackupPath(src)]
            /\ fs[BackupPath(src)] # NoFile
            /\ fs' = fs
            /\ pc' = "progress"
            /\ converted' = converted]_vars

C20_Witness ==
    /\ pc = "progress"
    /\ i = 2
    /\ log # <<>>
    /\ log[Len(log)].op = "convert_failed"
    /\ log[Len(log)].args = <<"encode">>
    /\ log[Len(log)].content.kind = "jpeg"
    /\ fs[with_suffix_jpg(src)].kind = "jpeg"
    /\ fs[src] \in Images
    /\ fs[BackupPath(src)] = fs[src]

(***************************************************************************)
(* Properties of a process with several invocations (specification         *)
(* ProcessSpec).                                                           *)
(***************************************************************************)
\* C13: over any sequence of invocations register_heif_opener() is called
\* at most once, the flag is true exactly when it has been called, a flag
\* that is true stays true, and a failed registration leaves it false.
C13_RegisteredOnce ==
    /\ [](registrations <= 1)
    /\ [](_HEIF_REGISTERED <=> registrations = 1)
    /\ [][_HEIF_REGISTERED => _HEIF_REGISTERED']_vars
    /\ [][(pc = "register" /\ pc' = "raised") =>
            (~_HEIF_REGISTERED' /\ registrations' = registrations)]_vars

C13_Witness ==
    /\ calls = 2
    /\ pc = "returned"
    /\ Len(paths) = 1
    /\ _HEIF_REGISTERED
    /\ registrations = 1

(***************************************************************************)
(* Properties of the quality search (specification SearchSpec).            *)
(***************************************************************************)
\* C8 as stated: the returned bytes have size <= max_bytes, or the returned
\* quality equals quality_max.
C8_FitsOrQualityMax ==
    Returned => (len(sres.data) <= TARGET_MAX_BYTES \/ sres.quality = QUALITY_MAX)

\* C8 amended: the returned bytes have size <= max_bytes, or the returned
\* quality equals quality_min.
C8_FitsOrQualityMin ==
    Returned => (len(sres.data) <= TARGET_MAX_BYTES \/ sres.quality = QUALITY_MIN)

C8_Witness ==
    /\ Returned
    /\ len(sres.data) > TARGET_MAX_BYTES
    /\ sres.quality = QUALITY_MIN
    /\ \E q \in Qualities : sizeOf[q] <= TARGET_MAX_BYTES

\* C9: for a size function that is non-decreasing in quality and has a
\* quality whose size is in [min_bytes, max_bytes], the search returns the
\* encoding at the highest such quality.
C9_HighestInWindow ==
    (Returned /\ Monotone(sizeOf) /\ WindowQualities(sizeOf) # {}) =>
        LET h == Highest(WindowQualities(sizeOf))
        IN  /\ sres.data = _encode_jpeg(sizeOf, h)
            /\ sres.quality = h
            /\ InWindow(len(sres.data))

C9_Witness ==
    /\ Returned
    /\ Monotone(sizeOf)
    /\ WindowQualities(sizeOf) # {}
    /\ sizeOf[QUALITY_MIN] < TARGET_MIN_BYTES
    /\ sizeOf[QUALITY_MAX] > TARGET_MAX_BYTES
    /\ sres.quality = Highest(WindowQualities(sizeOf))

\* C10: the returned quality is the quality at which the returned bytes
\* were encoded.
C10_QualityOfBytes == Returned => sres.quality = sres.data.q

\* C17: the search returns after at most 6 encode calls in the binary
\* search and at most 6 + 55 encode calls in all.
C17_EncodeCallsBounded ==
    Returned =>
        /\ sres.bsCalls <= 6
        /\ sres.calls <= 6 + 55
        /\ sres.calls >= sres.bsCalls

C17_Witness ==
    /\ Returned
    /\ sres.bsCalls = 6
    /\ sres.refined
    /\ sres.calls = 7

\* C18: the returned quality is an integer in [QUALITY_MIN, QUALITY_MAX].
C18_QualityInRange ==
    Returned => sres.quality \in QUALITY_MIN..QUALITY_MAX

C18_Witness ==
    /\ Returned
    /\ sres.refined
    /\ sres.quality = QUALITY_MAX
    /\ sres.data.q = QUALITY_MAX - 1

\* C19: the refinement loop never accepts a candidate: it stops at its
\* first encode call, and the returned bytes are those of the search with
\* the refinement loop removed (the best candidate of the binary search, or
\* the QUALITY_MIN fallback).
C19_RefinementAcceptsNothing ==
    Returned =>
        /\ sres.data = SearchWithoutRefinement(sizeOf).data
        /\ sres.refined => sres.calls = sres.bsCalls + 1

C19_Witness ==
    /\ Returned
    /\ sres.refined
    /\ sres.calls = sres.bsCalls + 1
    /\ len(sres.data) < TARGET_MIN_BYTES
    /\ sres.data.q < QUALITY_MAX - 1
    /\ sizeOf[sres.data.q + 2] <= TARGET_MAX_BYTES

====
